---- MODULE Spec2Model ----
(***************************************************************************)
(* The scene editor's components (src/src/components.ts): the Selector     *)
(* attached to every interactive game object and the CameraController of   *)
(* the editor camera, with the module-level state they share (the         *)
(* selection, the outline reference count and render hook, the marquee's   *)
(* selectors/lastSelectors sets).                                          *)
(*                                                                         *)
(* Coordinates are fixed-point numbers with Res steps per world unit; a    *)
(* vec3 is a triple <<x, y, z>> of them.  Additions and subtractions are   *)
(* exact, a scaling by 1/n rounds to the nearest step.                     *)
(***************************************************************************)
EXTENDS Integers, FiniteSets, Sequences, TLC

\* ------------------------------------------------------------- bounds
\* Fixed-point steps per world unit.
Res == 2
\* The positions an edit sets stay within -MaxCoord..MaxCoord steps.
MaxCoord == 2
\* Pointers that can hover one object at the same time.
MaxHovers == 1
\* "select" game objects that can exist (undisposed) at the same time.
MaxRegions == 2
\* The camera distance is followed up to MaxDistance world units.
MaxDistance == 12
\* The camera azimuth is followed within -MaxTurns..MaxTurns quarter turns.
MaxTurns == 1
\* The camera target stays within -MaxTarget..MaxTarget steps.
MaxTarget == 1

\* ---------------------------------------------------------- constants
\* undefined, for an Object3D; for a vec3; for a game object
None == "undefined"
NoVec == <<>>
NoRegion == 0
\* const SMALL_SCALE = 0.000001, in millionths of a unit
SMALL_SCALE == 1
Millionths == 1000000
\* the clamp of the elevation, in degrees
MinElevation == -90
MaxElevation == 90
\* elevation = -45, distance = 10 (world units)
DefaultElevation == -45
DefaultDistance == 10

\* ------------------------------------------------------------ vectors
Abs(n) == IF n < 0 THEN -n ELSE n
Min2(a, b) == IF a < b THEN a ELSE b
Max2(a, b) == IF a > b THEN a ELSE b

Zero3 == <<0, 0, 0>>
\* vec3.add, vec3.subtract, vec3.min, vec3.max
Vec3Add(a, b) == <<a[1] + b[1], a[2] + b[2], a[3] + b[3]>>
Vec3Subtract(a, b) == <<a[1] - b[1], a[2] - b[2], a[3] - b[3]>>
Vec3Min(a, b) == <<Min2(a[1], b[1]), Min2(a[2], b[2]), Min2(a[3], b[3])>>
Vec3Max(a, b) == <<Max2(a[1], b[1]), Max2(a[2], b[2]), Max2(a[3], b[3])>>
\* Math.round of a fixed-point number: floor(x + 0.5), as a fixed-point number
MathRound(d) == Res * ((2 * d + Res) \div (2 * Res))
\* vec3.round
Vec3Round(v) == <<MathRound(v[1]), MathRound(v[2]), MathRound(v[3])>>
\* a fixed-point number times 1/n, rounded to the nearest step
ScaleInv(s, n) == (2 * s + n) \div (2 * n)
\* vec3.scale(v, v, 1 / n)
Vec3ScaleInv(v, n) == <<ScaleInv(v[1], n), ScaleInv(v[2], n), ScaleInv(v[3], n)>>

RECURSIVE Vec3Sum(_, _)
Vec3Sum(S, pos) ==
    IF S = {} THEN Zero3
    ELSE LET id == CHOOSE x \in S : TRUE
         IN Vec3Add(Vec3Sum(S \ {id}, pos), pos[id])

\* -------------------------------------------------------------- state
VARIABLES
    \* gameEngine.gameObjects: id -> the game object's name and
    \* transform.position; disposed: the ids whose game object was disposed
    name, position, disposed,
    \* the "hoverable" component of each game object: its objectValue (an
    \* Object3D or undefined) and the size of its hovers map
    object, hovers,
    \* Selector.groupHovered, Selector._intersectionToCenter
    groupHovered, intersectionToCenter,
    \* ui/model's selection (a set of strings)
    selection,
    \* the outline: each Selector's _outlineObject with the `selected` its
    \* mesh hooks captured, and the module's outlineCount, outlineRemover,
    \* renderTarget and the render engine's onAfterRender
    outline,
    \* the module-level sets of the marquee
    selectors, lastSelectors,
    \* CameraController._selectRegion, ._selectStartPosition, the undisposed
    \* "select" game objects and the active one's transform
    selectRegion, selectStartPosition, regions, regionTransform,
    \* CameraController's properties
    target, azimuth, elevation, distance,
    \* renderEngine.activeCameras[0] exists
    activeCamera,
    \* this.target is the module's scratch vector tmpv itself: the
    \* assignment of line 350 hands tmpv to the host's property setter
    targetIsTmpv,
    \* the last event handled, with its inputs
    ev

vars == <<name, position, disposed, object, hovers, groupHovered,
          intersectionToCenter, selection, outline, selectors, lastSelectors,
          selectRegion, selectStartPosition, regions, regionTransform,
          target, azimuth, elevation, distance, activeCamera, targetIsTmpv,
          ev>>

\* the ids of gameEngine.gameObjects
Ids == DOMAIN name
\* the Selectors whose awake() subscription is still in place
Live == Ids \ disposed

\* ------------------------------------------------------------ outline
\* Selector._clearOutline (189-198) on Selector o
ClearOutline(ol, o) ==
    IF ol.outlineObject[o] = None THEN ol
    ELSE LET count == ol.outlineCount - 1
         IN [ol EXCEPT !.outlineObject[o] = None,
                       !.outlineLayer[o] = FALSE,
                       !.outlineCount = count,
                       !.onAfterRender =
                           IF count = 0 /\ ol.outlineRemover = "remove"
                           THEN FALSE ELSE @]

\* a _setOutline that does not clear the outline it replaces
SetOutlineNoClear(ol, o, obj, selected) ==
    LET count == ol.outlineCount + 1
        set == [ol EXCEPT !.outlineObject[o] = obj,
                          !.outlineLayer[o] = TRUE,
                          !.outlineSelected[o] = selected,
                          !.outlineCount = count]
    IN IF count = 1
       THEN [set EXCEPT !.renderTarget = TRUE,
                        !.onAfterRender = TRUE,
                        !.outlineRemover = "remove"]
       ELSE set

\* Selector._setOutline (104-187) on Selector o
SetOutline(ol, o, obj, selected) ==
    LET cleared == ClearOutline(ol, o)
        count == cleared.outlineCount + 1
        set == [cleared EXCEPT !.outlineObject[o] = obj,
                               !.outlineLayer[o] = TRUE,
                               !.outlineSelected[o] = selected,
                               !.outlineCount = count]
    IN IF count = 1
       THEN [set EXCEPT !.renderTarget = TRUE,
                        !.onAfterRender = TRUE,
                        !.outlineRemover = "remove"]
       ELSE set

\* what the join3 of Selector.awake holds for Selector o:
\* [[hovered, object], groupHovered, selected]
JoinValue(o, hv, obj, gh, sel) ==
    <<IF obj[o] = None THEN 0 ELSE hv[o], obj[o], gh[o], o \in sel>>

\* an outline for the hover and the selection, not for the group hover
WantsOutlineNoGroup(v) == v[2] # None /\ (v[1] > 0 \/ v[4])

\* the outline a join value asks for
WantsOutline(v) == v[2] # None /\ (v[1] > 0 \/ v[3] \/ v[4])

\* the onValue callback of Selector.awake (52-55)
OnValue(ol, o, v) ==
    IF WantsOutline(v) THEN SetOutline(ol, o, v[2], v[4])
    ELSE ClearOutline(ol, o)

\* the callbacks of the Selectors in S, one after the other
RECURSIVE Dispatch(_, _, _, _, _, _)
Dispatch(ol, S, hv, obj, gh, sel) ==
    IF S = {} THEN ol
    ELSE LET o == CHOOSE x \in S : TRUE
         IN Dispatch(OnValue(ol, o, JoinValue(o, hv, obj, gh, sel)),
                     S \ {o}, hv, obj, gh, sel)

\* a change of the hoverables, of groupHovered or of the selection reaches
\* the live Selectors whose join value it changes
React(ol, hv0, obj0, gh0, sel0, hv1, obj1, gh1, sel1) ==
    Dispatch(ol,
             {o \in Live : JoinValue(o, hv0, obj0, gh0, sel0)
                           # JoinValue(o, hv1, obj1, gh1, sel1)},
             hv1, obj1, gh1, sel1)

\* selection.clear(), selection.add(id), selection.delete(id) with the
\* Selectors' reactions; st is <<selection, outline>>
SelectionSet(st, sel) ==
    <<sel, React(st[2], hovers, object, groupHovered, st[1],
                 hovers, object, groupHovered, sel)>>
SelectionClear(st) == SelectionSet(st, {})
SelectionAdd(st, id) == SelectionSet(st, st[1] \cup {id})
SelectionDelete(st, id) == SelectionSet(st, st[1] \ {id})

\* ----------------------------------------------------------- Selector
\* a thrown Error in place of a vec3
Throw == <<0>>
\* an empty SpaceEditConfig
NoEdit == [id \in {} |-> Zero3]

\* CameraController.getXZPlaneIntersection (241-249): the point where the
\* pointer's ray meets the XZ plane at a positive distance, or NoVec (false)
GetXZPlaneIntersection(hover) == hover.world

\* Selector._getXZPlaneIntersection (200-205)
SelectorGetXZPlaneIntersection(hover) ==
    IF ~activeCamera THEN NoVec ELSE GetXZPlaneIntersection(hover)

\* Selector._getCenter (207-214); gameObjects.require throws on an id that
\* names no game object
GetCenter(o, sel, pos) ==
    IF o \notin sel THEN pos[o]
    ELSE IF \E id \in sel : id \notin Live THEN Throw
    ELSE Vec3ScaleInv(Vec3Sum(sel, pos), Cardinality(sel))

\* a toggle that only ever selects
ToggleSelectionNoDelete(st, o) == SelectionAdd(st, o)

\* Selector.onPointerDown (60-63): the control key toggles the object
ToggleSelection(st, o) ==
    IF o \in st[1] THEN SelectionDelete(st, o) ELSE SelectionAdd(st, o)

\* a click that adds to the selection without clearing it
ClickSelectionNoClear(st, o) ==
    IF o \notin st[1] THEN SelectionAdd(st, o) ELSE st

\* Selector.onPointerDown (64-67): a click selects an unselected object alone
ClickSelection(st, o) ==
    IF o \notin st[1] THEN SelectionAdd(SelectionClear(st), o) ELSE st

\* a pointer-down that keeps the recorded offset when its ray misses
GrabOffsetNoReset(o, hover, sel, current) ==
    LET intersection == SelectorGetXZPlaneIntersection(hover)
    IN IF intersection = NoVec THEN current
       ELSE LET center == GetCenter(o, sel, position)
            IN IF center = Throw THEN current
               ELSE Vec3Subtract(center, intersection)

\* Selector.onPointerDown (68-73): the new _intersectionToCenter
GrabOffset(o, hover, sel, current) ==
    LET intersection == SelectorGetXZPlaneIntersection(hover)
    IN IF intersection = NoVec THEN NoVec
       ELSE LET center == GetCenter(o, sel, position)
            IN IF center = Throw THEN current
               ELSE Vec3Subtract(center, intersection)

\* Selector.onPointerDown (59-74)
SelectorOnPointerDown(o, control, hover) ==
    /\ o \in Live
    /\ LET st == IF control THEN ToggleSelection(<<selection, outline>>, o)
                 ELSE ClickSelection(<<selection, outline>>, o)
       IN /\ selection' = st[1]
          /\ outline' = st[2]
          /\ intersectionToCenter' =
                 [intersectionToCenter EXCEPT
                     ![o] = GrabOffset(o, hover, st[1], @)]
    /\ ev' = [op |-> "Selector.onPointerDown", obj |-> o, control |-> control,
              hit |-> SelectorGetXZPlaneIntersection(hover) # NoVec,
              before |-> IF control THEN selection ELSE {}]
    /\ UNCHANGED <<name, position, disposed, object, hovers, groupHovered,
                   selectors, lastSelectors, selectRegion,
                   selectStartPosition, regions, regionTransform, target,
                   azimuth, elevation, distance,
                   activeCamera, targetIsTmpv>>

\* a drag that never snaps
SnapCenterNoRound(oldCenter, newCenter, shift) == newCenter

\* Selector.onPointerDrag (82-86): the center snapped to whole units from
\* the old one unless the shift key is held
SnapCenter(oldCenter, newCenter, shift) ==
    IF shift THEN newCenter
    ELSE Vec3Add(oldCenter, Vec3Round(Vec3Subtract(newCenter, oldCenter)))

\* an edit that puts every selected object at the new center
EditOfNoOffset(o, oldCenter, newCenter) ==
    IF o \in selection
    THEN [id \in selection |-> newCenter]
    ELSE [id \in {o} |-> newCenter]

\* Selector.onPointerDrag (87-100): the SpaceEditConfig, id -> position
EditOf(o, oldCenter, newCenter) ==
    IF o \in selection
    THEN [id \in selection |->
             Vec3Add(Vec3Subtract(position[id], oldCenter), newCenter)]
    ELSE [id \in {o} |-> newCenter]

\* Selector.onPointerDrag (76-101): the edit it applies, NoEdit when it
\* returns (or throws) before applyEdit
DragEdit(o, shift, hover) ==
    IF intersectionToCenter[o] = NoVec THEN NoEdit
    ELSE LET intersection == SelectorGetXZPlaneIntersection(hover)
         IN IF intersection = NoVec THEN NoEdit
            ELSE LET oldCenter == GetCenter(o, selection, position)
                 IN IF oldCenter = Throw THEN NoEdit
                    ELSE EditOf(o, oldCenter,
                                SnapCenter(oldCenter,
                                           Vec3Add(intersection,
                                                   intersectionToCenter[o]),
                                           shift))

\* ui/model's applyEdit({edit}): the edited objects take their positions
ApplyEdit(edit) ==
    [id \in Ids |-> IF id \in DOMAIN edit THEN edit[id] ELSE position[id]]

InRange(v) == \A i \in 1..3 : Abs(v[i]) <= MaxCoord

\* Selector.onPointerDrag (76-102)
SelectorOnPointerDrag(o, shift, hover) ==
    /\ o \in Live
    /\ LET edit == DragEdit(o, shift, hover)
       IN /\ IF edit = NoEdit THEN UNCHANGED position
             ELSE /\ \A id \in DOMAIN edit : InRange(edit[id])
                  /\ position' = ApplyEdit(edit)
          /\ ev' = [op |-> "Selector.onPointerDrag", obj |-> o,
                    shift |-> shift,
                    world |-> SelectorGetXZPlaneIntersection(hover),
                    edit |-> edit]
    /\ UNCHANGED <<name, disposed, object, hovers, groupHovered,
                   intersectionToCenter, selection, outline, selectors,
                   lastSelectors, selectRegion, selectStartPosition, regions,
                   regionTransform, target, azimuth, elevation, distance,
                   activeCamera, targetIsTmpv>>

\* --------------------------------------------------------- the host
\* a pointer enters the object: hoverable.hovers gains an entry
HoverEnter(o) ==
    /\ o \in Live
    /\ object[o] # None
    /\ hovers[o] < MaxHovers
    /\ hovers' = [hovers EXCEPT ![o] = @ + 1]
    /\ outline' = React(outline, hovers, object, groupHovered, selection,
                        hovers', object, groupHovered, selection)
    /\ ev' = [op |-> "hoverEnter", obj |-> o]
    /\ UNCHANGED <<name, position, disposed, object, groupHovered,
                   intersectionToCenter, selection, selectors, lastSelectors,
                   selectRegion, selectStartPosition, regions,
                   regionTransform, target, azimuth, elevation, distance,
                   activeCamera, targetIsTmpv>>

\* a pointer leaves the object: hoverable.hovers loses an entry
HoverLeave(o) ==
    /\ o \in Live
    /\ hovers[o] > 0
    /\ hovers' = [hovers EXCEPT ![o] = @ - 1]
    /\ outline' = React(outline, hovers, object, groupHovered, selection,
                        hovers', object, groupHovered, selection)
    /\ ev' = [op |-> "hoverLeave", obj |-> o]
    /\ UNCHANGED <<name, position, disposed, object, groupHovered,
                   intersectionToCenter, selection, selectors, lastSelectors,
                   selectRegion, selectStartPosition, regions,
                   regionTransform, target, azimuth, elevation, distance,
                   activeCamera, targetIsTmpv>>

\* the "hoverable" property of the game object changes: a hoverable with
\* its Object3D, or none (and then no hovers)
SetHoverable(o, obj) ==
    /\ o \in Live
    /\ object[o] # obj
    /\ object' = [object EXCEPT ![o] = obj]
    /\ hovers' = [hovers EXCEPT ![o] = 0]
    /\ outline' = React(outline, hovers, object, groupHovered, selection,
                        hovers', object', groupHovered, selection)
    /\ ev' = [op |-> "setHoverable", obj |-> o]
    /\ UNCHANGED <<name, position, disposed, groupHovered,
                   intersectionToCenter, selection, selectors, lastSelectors,
                   selectRegion, selectStartPosition, regions,
                   regionTransform, target, azimuth, elevation, distance,
                   activeCamera, targetIsTmpv>>

\* the game object is disposed: the Selector's _disposer removes the
\* subscription of awake (40-56), and nothing else of the Selector changes
Dispose(o) ==
    /\ o \in Live
    /\ disposed' = disposed \cup {o}
    /\ ev' = [op |-> "dispose", obj |-> o]
    /\ UNCHANGED <<name, position, object, hovers, groupHovered,
                   intersectionToCenter, selection, outline, selectors,
                   lastSelectors, selectRegion, selectStartPosition, regions,
                   regionTransform, target, azimuth, elevation, distance,
                   activeCamera, targetIsTmpv>>

\* the render engine's first active camera appears or goes
\* (renderEngine.activeCameras[0], 201)
SetActiveCamera(camera) ==
    /\ activeCamera # camera
    /\ activeCamera' = camera
    /\ ev' = [op |-> "setActiveCamera", camera |-> camera]
    /\ UNCHANGED <<name, position, disposed, object, hovers, groupHovered,
                   intersectionToCenter, selection, outline, selectors,
                   lastSelectors, selectRegion, selectStartPosition, regions,
                   regionTransform, target, azimuth, elevation, distance,
                   targetIsTmpv>>

\* --------------------------------------------------- CameraController
\* 0.5 of a world unit, in steps
Half == Res \div 2
\* the bounds of a game object: a cube of one unit around its position
ObjectBounds(pos) ==
    [min |-> Vec3Subtract(pos, <<Half, Half, Half>>),
     max |-> Vec3Add(pos, <<Half, Half, Half>>)]
Intersects(a, b) ==
    \A i \in 1..3 : a.min[i] <= b.max[i] /\ b.min[i] <= a.max[i]

\* renderEngine.overlapBounds(tmpb, ~NONINTERACTIVE_LAYER_FLAG, transforms)
\* (322): the interactive game objects whose bounds overlap b
OverlapBounds(b) ==
    {o \in Live : Intersects(ObjectBounds(position[o]), b)}

\* the bounds of the marquee between the start position and the pointer
\* (318-321)
MarqueeBounds(start, tmpv) ==
    LET lo == Vec3Min(start, tmpv)
        hi == Vec3Max(start, tmpv)
    IN [min |-> <<lo[1], lo[2] - Half, lo[3]>>,
        max |-> <<hi[1], hi[2] + Half, hi[3]>>]

\* a length in steps as a scale in millionths, at least SMALL_SCALE (314, 316)
RegionScale(d) == Max2(SMALL_SCALE, (Abs(d) * Millionths) \div Res)

NoTransform == [position |-> NoVec, localScale |-> NoVec]
\* the transform the "select" game object is created with (287-290)
CreatedTransform(start) ==
    [position |-> start, localScale |-> <<SMALL_SCALE, Millionths, SMALL_SCALE>>]
\* the transform a drag of the marquee sets (309-317)
DraggedTransform(start, tmpv) ==
    [position |-> Vec3ScaleInv(Vec3Add(start, tmpv), 2),
     localScale |-> <<RegionScale(tmpv[1] - start[1]), Millionths,
                      RegionScale(tmpv[3] - start[3])>>]

\* the id of a game object created now
NewRegion == CHOOSE r \in 1..MaxRegions : r \notin regions

\* CameraController.onPointerDown (279-304)
CameraOnPointerDown(left, shift, hover) ==
    /\ IF left /\ shift
       THEN LET st == SelectionClear(<<selection, outline>>)
                start == GetXZPlaneIntersection(hover)
            IN /\ selection' = st[1]
               /\ outline' = st[2]
               /\ IF start = NoVec
                  THEN UNCHANGED <<selectRegion, selectStartPosition,
                                   regions, regionTransform>>
                  ELSE /\ Cardinality(regions) < MaxRegions
                       /\ selectStartPosition' = start
                       /\ selectRegion' = NewRegion
                       /\ regions' = regions \cup {NewRegion}
                       /\ regionTransform' = CreatedTransform(start)
       ELSE UNCHANGED <<selection, outline, selectRegion,
                        selectStartPosition, regions, regionTransform>>
    /\ ev' = [op |-> "CameraController.onPointerDown", left |-> left,
              shift |-> shift, hover |-> hover]
    /\ UNCHANGED <<name, position, disposed, object, hovers, groupHovered,
                   intersectionToCenter, selectors, lastSelectors, target,
                   azimuth, elevation, distance,
                   activeCamera, targetIsTmpv>>

\* CameraController.onPointerDrag (323-327): the Selectors in the marquee
\* are group-hovered and join `selectors`
GroupHoverOverlap(gh, overlap) ==
    [o \in Ids |-> IF o \in overlap THEN TRUE ELSE gh[o]]

\* an update that resets no group hover
GroupHoverNoReset(gh, last, sel) == gh

\* CameraController.onPointerDrag (329-331): the Selectors of the previous
\* update that are not in `sel` are no longer group-hovered
GroupHoverReset(gh, last, sel) ==
    [o \in Ids |-> IF o \in last /\ o \notin sel THEN FALSE ELSE gh[o]]

\* clamp(value, min, max)
Clamp(value, lo, hi) == Max2(lo, Min2(hi, value))

\* a distance with no least value
AddToDistanceNoMin(d, amount) == d + amount

\* CameraController._addToDistance (373-375)
AddToDistance(d, amount) == Max2(Half, d + amount)

\* the vector v turned by quat.fromEuler(0, az, 0), az a multiple of 90
RotateY(v, az) ==
    LET q == (az \div 90) % 4
    IN CASE q = 0 -> v
         [] q = 1 -> <<v[3], v[2], -v[1]>>
         [] q = 2 -> <<-v[1], v[2], -v[3]>>
         [] q = 3 -> <<-v[3], v[2], v[1]>>

\* tmpv after vec3.transformQuat (345-349): the view movement turned by the
\* azimuth; the movement is in 180ths of the view, tmpv in steps
PanDirection(az, vm) ==
    LET dir == RotateY(<<-vm[1], 0, vm[2]>>, az)
    IN <<ScaleInv(dir[1] * Res, 180), ScaleInv(dir[2] * Res, 180),
         ScaleInv(dir[3] * Res, 180)>>

\* vec3.scaleAndAdd(tmpv, this.target, tmpv, this.distance) (350) on the
\* target t; the movement is in 180ths of the view
PanTarget(t, az, d, vm) ==
    LET dir == RotateY(<<-vm[1], 0, vm[2]>>, az)
    IN <<t[1] + ScaleInv(dir[1] * d, 180), t[2] + ScaleInv(dir[2] * d, 180),
         t[3] + ScaleInv(dir[3] * d, 180)>>

\* this.target once tmpv holds v: v when the target is tmpv itself
TargetWithTmpv(t, isTmpv, v) == IF isTmpv THEN v ELSE t

\* this.target = tmpv (350): the host's property setter keeps the vector it
\* is given, or a copy of it; once the target is tmpv it stays tmpv
TargetAssigned(isTmpv) == IF isTmpv THEN {TRUE} ELSE BOOLEAN

\* CameraController.onPointerDrag (306-335): the marquee follows the pointer
DragMarquee(hover) ==
    LET tmpv == GetXZPlaneIntersection(hover)
    IN IF tmpv = NoVec
       THEN UNCHANGED <<regionTransform, groupHovered, outline, selectors,
                        lastSelectors, target>>
       ELSE LET overlap == OverlapBounds(MarqueeBounds(selectStartPosition, tmpv))
                current == selectors \cup overlap
                gh == GroupHoverReset(GroupHoverOverlap(groupHovered, overlap),
                                      lastSelectors, current)
            IN /\ target' = TargetWithTmpv(target, targetIsTmpv, tmpv)
               /\ regionTransform' = DraggedTransform(selectStartPosition, tmpv)
               /\ groupHovered' = gh
               /\ outline' = React(outline, hovers, object, groupHovered,
                                   selection, hovers, object, gh, selection)
               /\ selectors' = {}
               /\ lastSelectors' = current

\* CameraController.onPointerDrag (336-351): the camera follows the pointer;
\* the view movement is in 180ths of the view
DragCamera(left, middle, vm) ==
    IF left
    THEN /\ azimuth' = azimuth - vm[1]
         /\ elevation' = Clamp(elevation + vm[2], MinElevation, MaxElevation)
         /\ UNCHANGED <<distance, target, targetIsTmpv>>
    ELSE IF middle
    THEN /\ distance' = AddToDistance(distance, -((vm[2] * Res) \div 9))
         /\ UNCHANGED <<azimuth, elevation, target, targetIsTmpv>>
    ELSE /\ target' = PanTarget(TargetWithTmpv(target, targetIsTmpv,
                                              PanDirection(azimuth, vm)),
                                azimuth, distance, vm)
         /\ targetIsTmpv' \in TargetAssigned(targetIsTmpv)
         /\ UNCHANGED <<azimuth, elevation, distance>>

\* the part of the camera's parameters the model follows
CameraInBounds ==
    /\ Abs(azimuth') <= 90 * MaxTurns
    /\ distance' <= MaxDistance * Res
    /\ \A i \in 1..3 : Abs(target'[i]) <= MaxTarget

\* CameraController.onPointerDrag (306-352)
CameraOnPointerDrag(left, middle, hover) ==
    /\ IF selectRegion # NoRegion
       THEN /\ DragMarquee(hover)
            /\ UNCHANGED <<azimuth, elevation, distance, targetIsTmpv>>
       ELSE /\ DragCamera(left, middle, hover.viewMovement)
            /\ CameraInBounds
            /\ UNCHANGED <<regionTransform, groupHovered, outline, selectors,
                           lastSelectors>>
    /\ ev' = [op |-> "CameraController.onPointerDrag", left |-> left,
              middle |-> middle, hover |-> hover, region |-> selectRegion]
    /\ UNCHANGED <<name, position, disposed, object, hovers,
                   intersectionToCenter, selection, selectRegion,
                   selectStartPosition, regions, activeCamera>>

\* CameraController.onPointerUp (360-363): each Selector of the last update
\* loses its group hover and is added to the selection;
\* st is <<groupHovered, selection, outline>>
RECURSIVE SelectLast(_, _)
SelectLast(st, S) ==
    IF S = {} THEN st
    ELSE LET selector == CHOOSE x \in S : TRUE
             gh == [st[1] EXCEPT ![selector] = FALSE]
             ol == React(st[3], hovers, object, st[1], st[2],
                         hovers, object, gh, st[2])
             sel == st[2] \cup {name[selector]}
         IN SelectLast(<<gh, sel,
                         React(ol, hovers, object, gh, st[2],
                               hovers, object, gh, sel)>>,
                       S \ {selector})

\* CameraController.onPointerUp (354-367)
CameraOnPointerUp ==
    /\ IF selectRegion # NoRegion
       THEN LET st == SelectLast(<<groupHovered, selection, outline>>,
                                 lastSelectors)
            IN /\ regions' = regions \ {selectRegion}
               /\ selectRegion' = NoRegion
               /\ regionTransform' = NoTransform
               /\ groupHovered' = st[1]
               /\ selection' = st[2]
               /\ outline' = st[3]
               /\ lastSelectors' = {}
       ELSE UNCHANGED <<regions, selectRegion, regionTransform, groupHovered,
                        selection, outline, lastSelectors>>
    /\ ev' = [op |-> "CameraController.onPointerUp", region |-> selectRegion]
    /\ UNCHANGED <<name, position, disposed, object, hovers,
                   intersectionToCenter, selectors, selectStartPosition,
                   target, azimuth, elevation, distance,
                   activeCamera, targetIsTmpv>>

\* CameraController.onWheel (369-371); sign is Math.sign(delta[1])
CameraOnWheel(sign) ==
    /\ distance' = AddToDistance(distance, Half * sign)
    /\ distance' <= MaxDistance * Res
    /\ ev' = [op |-> "CameraController.onWheel", sign |-> sign,
              from |-> distance]
    /\ UNCHANGED <<name, position, disposed, object, hovers, groupHovered,
                   intersectionToCenter, selection, outline, selectors,
                   lastSelectors, selectRegion, selectStartPosition, regions,
                   regionTransform, target, azimuth, elevation,
                   activeCamera, targetIsTmpv>>

\* CameraController.reset (251-257)
CameraReset ==
    /\ target' = Zero3
    /\ azimuth' = 0
    /\ elevation' = DefaultElevation
    /\ distance' = DefaultDistance * Res
    /\ ev' = [op |-> "CameraController.reset"]
    /\ UNCHANGED <<name, position, disposed, object, hovers, groupHovered,
                   intersectionToCenter, selection, outline, selectors,
                   lastSelectors, selectRegion, selectStartPosition, regions,
                   regionTransform,
                   activeCamera, targetIsTmpv>>

\* ------------------------------------------------------ specifications
\* a Hover: where the pointer's ray meets the XZ plane (NoVec: nowhere) and
\* its view movement
Hover(world, vm) == [world |-> world, viewMovement |-> vm]
Miss == Hover(NoVec, <<0, 0>>)

\* the state after the components are constructed and awake() has run (the
\* onValue callback is called at once and clears no outline): a scene of
\* the game objects ids with no hover, an empty selection, the camera at
\* its defaults (233-236)
InitScene(ids, names, pos, obj) ==
    /\ name = names
    /\ position = pos
    /\ disposed = {}
    /\ object = obj
    /\ hovers = [o \in ids |-> 0]
    /\ groupHovered = [o \in ids |-> FALSE]
    /\ intersectionToCenter = [o \in ids |-> NoVec]
    /\ selection = {}
    /\ outline = [outlineObject |-> [o \in ids |-> None],
                  outlineLayer |-> [o \in ids |-> FALSE],
                  outlineSelected |-> [o \in ids |-> FALSE],
                  outlineCount |-> 0,
                  outlineRemover |-> "noop",
                  onAfterRender |-> FALSE,
                  renderTarget |-> FALSE]
    /\ selectors = {}
    /\ lastSelectors = {}
    /\ selectRegion = NoRegion
    /\ selectStartPosition = Zero3
    /\ regions = {}
    /\ regionTransform = NoTransform
    /\ target = Zero3
    /\ azimuth = 0
    /\ elevation = DefaultElevation
    /\ distance = DefaultDistance * Res
    /\ activeCamera = TRUE
    /\ targetIsTmpv = FALSE
    /\ ev = [op |-> "init"]

\* A scene of three unit cubes, "a" under its id or renamed; the pointer
\* meets the plane beside the cubes, at a corner of "a", or between "a"
\* and "b", or it moves over the view without meeting the plane.
SceneIds == {"a", "b", "c"}
ScenePosition == [o \in SceneIds |->
                     CASE o = "a" -> <<0, 0, 0>>
                       [] o = "b" -> <<3, 0, 0>>
                       [] o = "c" -> <<0, 0, 3>>]
SceneNames == {n \in [SceneIds -> SceneIds \cup {"renamed"}] :
                  /\ n["a"] \in {"a", "renamed"}
                  /\ \A o \in SceneIds \ {"a"} : n[o] = o}
Meshes == [o \in SceneIds |-> "mesh"]
PlanePoints == {<<-2, 0, -2>>, <<1, 0, 1>>, <<3, 0, -2>>}
CameraHovers == {Hover(w, <<0, 0>>) : w \in PlanePoints} \cup {Hover(NoVec, <<0, 90>>)}
\* the left button and the shift key at a pointer-down of the camera
CameraDowns == {<<TRUE, TRUE, h>> : h \in CameraHovers}
                   \cup {<<TRUE, FALSE, Miss>>, <<FALSE, TRUE, Miss>>}

Init ==
    \E names \in SceneNames : InitScene(SceneIds, names, ScenePosition, Meshes)

\* clicks on the objects (the pointer's ray missing the plane) and the
\* camera's pointer events
Next ==
    \/ \E o \in Ids, control \in BOOLEAN : SelectorOnPointerDown(o, control, Miss)
    \/ \E in \in CameraDowns : CameraOnPointerDown(in[1], in[2], in[3])
    \/ \E hover \in CameraHovers : CameraOnPointerDrag(TRUE, FALSE, hover)
    \/ CameraOnPointerUp

Spec == Init /\ [][Next]_vars

\* -------------------------------------------------------------- claims
IsSelectorDown(e) == e.op = "Selector.onPointerDown"
IsCameraDown(e) == e.op = "CameraController.onPointerDown"
IsCameraDrag(e) == e.op = "CameraController.onPointerDrag"
IsCameraUp(e) == e.op = "CameraController.onPointerUp"
\* a pointer-down of the camera with the left button and the shift key
IsMarqueeDown(e) == IsCameraDown(e) /\ e.left /\ e.shift
\* a drag of the camera that updated the active marquee
IsMarqueeUpdate(e) ==
    IsCameraDrag(e) /\ e.region # NoRegion /\ e.hover.world # NoVec

\* C1: when a marquee ends (onPointerUp with a select region active) on a
\* selection that is empty since the marquee's start, the selection
\* becomes the set of the ids of the objects of the last overlap result
\* (lastSelectors), and holds nothing else.
C1_MarqueeSelectsIds ==
    [][IsCameraUp(ev') /\ selectRegion # NoRegion /\ selection = {}
         => selection' = lastSelectors]_vars

\* C2: a pointer-down on a Selector with the control key held flips the
\* membership of that object's id in the selection and of no other string;
\* a second control-click on the same object, right after the first,
\* restores the selection the first one found.
C2_ControlToggles ==
    [][IsSelectorDown(ev') /\ ev'.control
         => /\ (ev'.obj \in selection') <=> (ev'.obj \notin selection)
            /\ \A x \in (selection \cup selection') \ {ev'.obj} :
                  (x \in selection') <=> (x \in selection)
            /\ (IsSelectorDown(ev) /\ ev.control /\ ev.obj = ev'.obj)
                  => selection' = ev.before]_vars

\* C2's case: a control-click took one object out of a selection of
\* several and left the others selected
C2_Witness ==
    /\ IsSelectorDown(ev) /\ ev.control
    /\ ev.obj \in ev.before
    /\ ev.obj \notin selection
    /\ (ev.before \ {ev.obj}) # {}
    /\ selection = ev.before \ {ev.obj}
    /\ outline.outlineObject[ev.obj] = None

\* C3: a pointer-down on a Selector without the control key makes the
\* selection the singleton of the object's id when the object was not
\* selected, and leaves the selection as it is when the object was.
C3_ClickSelects ==
    [][IsSelectorDown(ev') /\ ~ev'.control
         => selection' = IF ev'.obj \in selection THEN selection
                         ELSE {ev'.obj}]_vars

\* C3's case: a click on one object of a selection of several
C3_Witness ==
    /\ IsSelectorDown(ev) /\ ~ev.control
    /\ ev.obj \in selection
    /\ Cardinality(selection) > 1

\* C7: at most one select region exists undisposed, and after a pointer-up
\* of the camera no region is active and none is left undisposed.
C7_RegionLifecycle ==
    /\ Cardinality(regions) <= 1
    /\ IsCameraUp(ev) => selectRegion = NoRegion /\ regions = {}

\* C9: after a drag that updated the marquee, a Selector is group-hovered
\* if and only if its object is in the overlap of the marquee's bounds;
\* after the pointer-up that ends a marquee no Selector is group-hovered
\* and selectors and lastSelectors are empty.
C9_GroupHoverTracksMarquee ==
    /\ IsMarqueeUpdate(ev)
          => \A o \in Ids :
                groupHovered[o] <=>
                   o \in OverlapBounds(MarqueeBounds(selectStartPosition,
                                                     ev.hover.world))
    /\ (IsCameraUp(ev) /\ ev.region # NoRegion)
          => /\ \A o \in Ids : ~groupHovered[o]
             /\ selectors = {}
             /\ lastSelectors = {}

\* C9's case: an update of the marquee whose bounds overlap "a" alone
C9_Witness ==
    /\ IsMarqueeUpdate(ev)
    /\ groupHovered["a"] /\ ~groupHovered["b"]
    /\ lastSelectors = {"a"}
    /\ outline.outlineObject["a"] # None
    /\ outline.outlineObject["b"] = None

\* C10: a pointer-down of the camera with shift and the left button leaves
\* the selection empty; when its ray misses the plane it creates no select
\* region, and the drag that follows it is camera navigation: it changes
\* nothing of the marquee.
C10_MissStartsNoMarquee ==
    [][/\ IsMarqueeDown(ev') => selection' = {}
       /\ (IsMarqueeDown(ev') /\ ev'.hover.world = NoVec)
             => regions' = regions
       /\ (IsMarqueeDown(ev) /\ ev.hover.world = NoVec /\ IsCameraDrag(ev'))
             => UNCHANGED <<regionTransform, groupHovered, lastSelectors>>]_vars

\* A scene of two unit cubes whose hoverables come and go, with pointers
\* entering and leaving them, clicks, marquees and disposals.
OutlineIds == {"a", "b"}
OutlineHovers == {Hover(w, <<0, 0>>) : w \in {<<1, 0, 1>>, <<3, 0, -2>>, NoVec}}

InitOutline ==
    InitScene(OutlineIds, [o \in OutlineIds |-> o],
              [o \in OutlineIds |-> ScenePosition[o]],
              [o \in OutlineIds |-> "mesh"])

NextOutline ==
    \/ \E o \in Ids, control \in BOOLEAN : SelectorOnPointerDown(o, control, Miss)
    \/ \E o \in Ids : HoverEnter(o)
    \/ \E o \in Ids : HoverLeave(o)
    \/ \E o \in Ids, obj \in {None, "mesh"} : SetHoverable(o, obj)
    \/ \E o \in Ids : Dispose(o)
    \/ \E hover \in OutlineHovers : CameraOnPointerDown(TRUE, TRUE, hover)
    \/ \E hover \in OutlineHovers : CameraOnPointerDrag(TRUE, FALSE, hover)
    \/ CameraOnPointerUp

SpecOutline == InitOutline /\ [][NextOutline]_vars

\* C4: a Selector whose subscription is in place holds an outline (its
\* _outlineObject is set and the meshes are on the outline layer) if and
\* only if its game object has a hoverable object and it is hovered, or
\* group-hovered, or its id is selected.
C4_OutlineTracksState ==
    \A o \in Live :
       /\ (outline.outlineObject[o] # None) <=>
             /\ object[o] # None
             /\ (hovers[o] > 0 \/ groupHovered[o] \/ o \in selection)
       /\ outline.outlineLayer[o] <=> (outline.outlineObject[o] # None)

\* C4's case: after a drag of the marquee, one Selector is outlined for its
\* group hover alone and the other, without a hoverable object, is not
\* outlined although it is group-hovered
C4_Witness ==
    /\ IsMarqueeUpdate(ev)
    /\ groupHovered["a"] /\ hovers["a"] = 0 /\ "a" \notin selection
    /\ outline.outlineObject["a"] # None
    /\ groupHovered["b"] /\ object["b"] = None /\ "b" \in Live
    /\ outline.outlineObject["b"] = None

\* C8: outlineCount is the number of Selectors (disposed ones included)
\* whose _outlineObject is set, it is never negative, and the render
\* engine's onAfterRender pass is installed if and only if it is positive.
C8_OutlineCount ==
    /\ outline.outlineCount =
          Cardinality({o \in Ids : outline.outlineObject[o] # None})
    /\ outline.outlineCount >= 0
    /\ outline.onAfterRender <=> (outline.outlineCount > 0)

\* C8's case: a Selector was disposed while outlined and keeps its
\* outline, while the other one's outline was set and cleared again
C8_Witness ==
    /\ \E o \in disposed : outline.outlineObject[o] # None
    /\ \E o \in Live : outline.outlineObject[o] = None
                       /\ outline.outlineSelected[o]
    /\ outline.outlineCount = 1
    /\ outline.onAfterRender

\* A scene of two unit cubes, "b" half a unit above the plane, that are
\* clicked and dragged; the pointer's ray meets the plane in the events
\* of "a" and misses it in those of "b".
EditIds == {"a", "b"}
EditPosition == [o \in EditIds |-> IF o = "a" THEN <<0, 0, 0>> ELSE <<2, 1, 0>>]
EditHovers == {Hover(w, <<0, 0>>) : w \in {<<0, 0, 0>>, <<1, 0, 0>>, NoVec}}
EditEvents == {<<"a", h>> : h \in EditHovers} \cup {<<"b", Miss>>}

InitEdit ==
    InitScene(EditIds, [o \in EditIds |-> o], EditPosition,
              [o \in EditIds |-> "mesh"])

NextEdit ==
    \/ \E e \in EditEvents, control \in BOOLEAN :
          SelectorOnPointerDown(e[1], control, e[2])
    \/ \E e \in EditEvents, shift \in BOOLEAN :
          SelectorOnPointerDrag(e[1], shift, e[2])

SpecEdit == InitEdit /\ [][NextEdit]_vars

IsSelectorDrag(e) == e.op = "Selector.onPointerDrag"
\* a drag of a Selector that applied an edit
IsEdit(e) == IsSelectorDrag(e) /\ e.edit # NoEdit
\* the positions with those of the edit e
Edited(e, pos) == [id \in Ids |-> IF id \in DOMAIN e THEN e[id] ELSE pos[id]]
IsWhole(v) == \A i \in 1..3 : v[i] % Res = 0

\* C5: a drag of a Selector that applies an edit without the shift key
\* moves the center of what it drags (the object, or the selection holding
\* it) by a whole number of units in every component, and so every edited
\* object; with the shift key the new center is the pointer's intersection
\* with the plane plus the offset recorded at the pointer-down, unrounded.
C5_GridSnapping ==
    [][IsEdit(ev')
         => LET o == ev'.obj
                oldCenter == GetCenter(o, selection, position)
                newCenter == GetCenter(o, selection, Edited(ev'.edit, position))
            IN IF ev'.shift
               THEN newCenter = Vec3Add(ev'.world, intersectionToCenter[o])
               ELSE /\ IsWhole(Vec3Subtract(newCenter, oldCenter))
                    /\ \A id \in DOMAIN ev'.edit :
                          IsWhole(Vec3Subtract(ev'.edit[id], position[id]))]_vars

\* C5's case: a drag without the shift key whose edit put the center
\* elsewhere than at the pointer's intersection plus the grab offset
C5_Witness ==
    /\ IsEdit(ev) /\ ~ev.shift
    /\ GetCenter(ev.obj, selection, position)
          # Vec3Add(ev.world, intersectionToCenter[ev.obj])
    /\ position # EditPosition

\* C6: a drag of a Selector that applies an edit edits the objects of the
\* selection when the dragged object is selected, and the dragged object
\* alone when it is not; every edited object is displaced by the same
\* vector, and no other object's position changes.
C6_EditSet ==
    [][IsEdit(ev')
         => LET S == IF ev'.obj \in selection THEN selection ELSE {ev'.obj}
            IN /\ DOMAIN ev'.edit = S
               /\ \A i, j \in S :
                     Vec3Subtract(ev'.edit[i], position[i])
                        = Vec3Subtract(ev'.edit[j], position[j])
               /\ \A i \in S : position'[i] = ev'.edit[i]
               /\ \A k \in Ids \ S : position'[k] = position[k]]_vars

\* C6's case: a drag of "a" moved the selection of both objects
C6_Witness ==
    /\ IsEdit(ev) /\ ev.obj = "a"
    /\ DOMAIN ev.edit = {"a", "b"}
    /\ position["a"] # EditPosition["a"]
    /\ position["b"] # EditPosition["b"]
    /\ Vec3Subtract(position["b"], position["a"])
          = Vec3Subtract(EditPosition["b"], EditPosition["a"])

\* The scene of the two cubes with the active camera coming and going:
\* "a" is clicked and dragged with the pointer's ray meeting the plane or
\* missing it, "b" with the ray missing it.
DragHovers == {Hover(w, <<0, 0>>) : w \in {<<0, 0, 0>>, <<2, 0, 0>>, NoVec}}
DragEvents == {<<"a", h>> : h \in DragHovers} \cup {<<"b", Miss>>}

NextDrag ==
    \/ \E e \in DragEvents, control \in BOOLEAN :
          SelectorOnPointerDown(e[1], control, e[2])
    \/ \E e \in DragEvents : SelectorOnPointerDrag(e[1], FALSE, e[2])
    \/ \E camera \in BOOLEAN : SetActiveCamera(camera)

SpecDrag == InitEdit /\ [][NextDrag]_vars

\* C11: a pointer-down on a Selector whose ray does not meet the plane (or
\* with no active camera) makes its selection change all the same and
\* leaves the Selector without a grab offset; the offset of a Selector
\* changes at its own pointer-downs only; a drag of a Selector that has no
\* grab offset, and a drag whose own ray misses the plane, apply no edit,
\* move nothing and leave every grab offset as it is.
C11_NoIntersectionNoEdit ==
    [][/\ (IsSelectorDown(ev') /\ ~ev'.hit)
             => /\ intersectionToCenter'[ev'.obj] = NoVec
                /\ selection' =
                      IF ev'.control
                      THEN IF ev'.obj \in selection
                           THEN selection \ {ev'.obj}
                           ELSE selection \cup {ev'.obj}
                      ELSE IF ev'.obj \in selection THEN selection
                           ELSE {ev'.obj}
       /\ \A o \in Ids :
             intersectionToCenter'[o] # intersectionToCenter[o]
                => IsSelectorDown(ev') /\ ev'.obj = o
       /\ (/\ IsSelectorDrag(ev')
           /\ \/ intersectionToCenter[ev'.obj] = NoVec
              \/ ev'.world = NoVec
              \/ (IsSelectorDown(ev) /\ ~ev.hit /\ ev.obj = ev'.obj))
             => /\ ev'.edit = NoEdit
                /\ position' = position
                /\ intersectionToCenter' = intersectionToCenter]_vars

\* C11's case: with no active camera, a drag of "a" applied no edit to the
\* selection an earlier drag of "a" had moved: a pointer-down since then
\* left "a" without its grab offset
C11_Witness ==
    /\ IsSelectorDrag(ev) /\ ev.obj = "a"
    /\ ~activeCamera
    /\ ev.edit = NoEdit
    /\ intersectionToCenter["a"] = NoVec
    /\ selection = {"a", "b"}
    /\ position["a"] # EditPosition["a"]

\* The camera over a scene of one cube: it is turned, zoomed and panned by
\* drags with the left button, the middle button, both or neither, by the
\* wheel and by reset(); the pointer moves by half a view, its ray meeting
\* the plane beside the cube or missing it.
CameraIds == {"a"}
NavButtons == {<<TRUE, FALSE>>, <<TRUE, TRUE>>, <<FALSE, TRUE>>, <<FALSE, FALSE>>}
NavHovers == {Hover(<<1, 0, 1>>, <<0, 90>>), Hover(NoVec, <<0, -90>>),
              Hover(NoVec, <<90, 0>>)}
WheelSigns == {-1, 0, 1}

InitCamera ==
    InitScene(CameraIds, [o \in CameraIds |-> o], [o \in CameraIds |-> Zero3],
              [o \in CameraIds |-> "mesh"])

NextCamera ==
    \/ \E b \in NavButtons, hover \in NavHovers :
          CameraOnPointerDrag(b[1], b[2], hover)
    \/ \E sign \in WheelSigns : CameraOnWheel(sign)
    \/ CameraReset

SpecCamera == InitCamera /\ [][NextCamera]_vars

\* The same camera with the cube clicked and marquees drawn, and no wheel.
NextModes ==
    \/ \E o \in Ids : SelectorOnPointerDown(o, FALSE, Miss)
    \/ \E hover \in NavHovers : CameraOnPointerDown(TRUE, TRUE, hover)
    \/ \E b \in NavButtons, hover \in NavHovers :
          CameraOnPointerDrag(b[1], b[2], hover)
    \/ CameraOnPointerUp

SpecModes == InitCamera /\ [][NextModes]_vars

IsCameraWheel(e) == e.op = "CameraController.onWheel"

C13_CameraBounds ==
    /\ [](/\ MinElevation <= elevation /\ elevation <= MaxElevation
          /\ distance >= Half)
    /\ [][IsCameraWheel(ev')
            => LET change == distance' - distance
               IN /\ Abs(change) <= Half
                  /\ change * ev'.sign >= 0
                  /\ ev'.sign = 0 => change = 0]_vars

\* C13's case: the wheel turned towards the target at the least distance
\* and left it there, with the elevation at its upper limit
C13_Witness ==
    /\ IsCameraWheel(ev) /\ ev.sign = -1
    /\ ev.from = Half /\ distance = Half
    /\ elevation = MaxElevation

====
